---- MODULE Spec2Model ----
(***************************************************************************)
(* State-machine model of pycaching's Geocaching class                     *)
(* (src/pycaching/geocaching.py): the login state (_logged_in, _session),  *)
(* the operations login, logout and get_logged_user, and the search        *)
(* generator with its page fetches.                                        *)
(*                                                                         *)
(* The website is the environment.  Which user a page shows is decided by  *)
(* the cookies of the requests.Session the request is sent on, so a        *)
(* session object is modelled as [id, user]: its identity as an object and *)
(* the user its cookies authenticate (None for a fresh session).  Every    *)
(* HTTP call either raises before the server acts, or the server acts and  *)
(* the response is returned or rejected by raise_for_status.  Search pages *)
(* are chosen by the server at each fetch.  Rows are taken to follow the   *)
(* markup contract, so parsing a row does not raise.  Server-side expiry   *)
(* of a session is not part of the model.                                  *)
(***************************************************************************)
EXTENDS Integers, Sequences, FiniteSets, TLC

VARIABLES logged_in,   \* Geocaching._logged_in
          session,     \* Geocaching._session: [id, user]
          gen,         \* the generator object returned by search()
          last,        \* record of the most recent call: what it did and how it ended
          quick        \* the generator object returned by search_quick()

vars == <<logged_in, session, gen, last, quick>>

\* ---------------------------------------------------------------- bounds
MaxSess  == 2   \* requests.Session objects created after the constructor's
MaxRows  == 2   \* rows on one search page
MaxFetch == 2   \* page fetches of one search
MaxLimit == 1   \* largest finite limit passed to search
MaxTiles == 2   \* tiles area.to_tiles gives search_quick
MaxBlocks == 2  \* blocks of one tile

\* ---------------------------------------------------------------- values
None  == "None"
Users == {"alice", "bob"}
NoPage == "NoPage"

CredentialErrors == {"FileNotFoundError", "ValueError", "KeyError", "IOError"}

\* limit: float("inf") or a natural number
Inf == [inf |-> TRUE, n |-> 0]
Fin(k) == [inf |-> FALSE, n |-> k]
Limits == {Inf} \cup {Fin(k) : k \in 0..MaxLimit}

\* one entry of the log of a call
Event(ev, url, sess, gated, li, start) ==
    [ev |-> ev, url |-> url, sess |-> sess, gated |-> gated, li |-> li, start |-> start]

IsHttp(e) == e.ev \in {"GET", "POST"}

HttpEvents(events) == SelectSeq(events, IsHttp)

\* ---------------------------------------------------------------- __init__
NoGen ==
    [status |-> "none", limit0 |-> Inf, limit |-> Inf, start_index |-> 0,
     enum_next |-> 0, page_rows |-> 0, pos |-> 0,
     yielded |-> <<>>, fetches |-> <<>>, exc |-> None]

NoCall ==
    [op |-> "init", user |-> None, pre_li |-> FALSE, pre_sess |-> [id |-> 0, user |-> None],
     shown |-> NoPage, after |-> NoPage, result |-> "ok", events |-> <<>>,
     first |-> FALSE, returned |-> None, pm_only |-> FALSE, cache |-> {},
     store |-> "unused"]

NoQuick ==
    [status |-> "none", strict |-> FALSE, tiles |-> <<>>, tile |-> 0, block |-> 0,
     yielded |-> <<>>]

Init ==
    /\ logged_in = FALSE
    /\ session = [id |-> 0, user |-> None]
    /\ gen = NoGen
    /\ last = NoCall
    /\ quick = NoQuick

\* No generator body is executing (the program is single-threaded: while a
\* pull runs, nothing else does).
Idle == gen.status \notin {"fetch", "row"}

\* ---------------------------------------------------------------- _request
\* line 48: the login check
LoginCheckOff(login_check, li) == FALSE
LoginCheckAlways(login_check, li) == li = FALSE
LoginCheckFails(login_check, li) == login_check /\ li = FALSE

\* ---------------------------------------------------------------- logout
\* line 161: self._session = requests.Session()
SameSession(s) == s
NewSession(s) == [id |-> s.id + 1, user |-> None]

\* lines 160-161 on the controller state c = [li, sess, events]
logout_flag_only(c) ==
    [li |-> FALSE, sess |-> c.sess,
     events |-> Append(c.events, Event("logout", "-", c.sess.id, FALSE, FALSE, 0))]
logout_state(c) ==
    [li |-> FALSE, sess |-> NewSession(c.sess),
     events |-> Append(c.events, Event("logout", "-", NewSession(c.sess).id, FALSE, FALSE, 0))]

logout ==
    /\ Idle
    /\ session.id < MaxSess
    /\ LET c == logout_state([li |-> logged_in, sess |-> session, events |-> <<>>])
       IN  /\ logged_in' = c.li
           /\ session' = c.sess
           /\ last' = [NoCall EXCEPT !.op = "logout", !.pre_li = logged_in,
                                     !.pre_sess = session, !.events = c.events]
    /\ UNCHANGED <<gen, quick>>

\* ---------------------------------------------------------------- get_logged_user
\* lines 173-176: the text of the "LoggedIn" element of a page, or None
LoggedUser(page) == page

\* line 169: a page object is always true, so a supplied page is used as it
\* is; without one the login page is fetched with login_check=False
get_logged_user ==
    /\ Idle
    /\ \E page \in Users \cup {None, NoPage} :
         \E get \in {"ok", "fail"} :
           LET fetch   == page = NoPage
               refused == fetch /\ LoginCheckFails(FALSE, logged_in)
               sent    == fetch /\ ~refused
               failed  == sent /\ get = "fail"
           IN  /\ (~sent) => get = "ok"
               /\ last' = [NoCall EXCEPT
                             !.op = "get_logged_user", !.pre_li = logged_in,
                             !.pre_sess = session,
                             !.events = IF sent
                                        THEN <<Event("GET", "login_page", session.id,
                                                     FALSE, logged_in, 0)>>
                                        ELSE <<>>,
                             !.shown = page,
                             !.result = IF refused THEN "NotLoggedInException"
                                        ELSE IF failed THEN "Error" ELSE "ok",
                             !.returned = IF refused \/ failed THEN None
                                          ELSE IF fetch THEN LoggedUser(session.user)
                                          ELSE LoggedUser(page)]
    /\ UNCHANGED <<logged_in, session, gen, quick>>

\* ---------------------------------------------------------------- login
\* line 75: credentials are loaded from the file unless both are given
NeedsCredentialsFile(username, password) == username = None \/ password = None

\* lines 78-87: each exception of _load_credentials becomes LoginFailedException
Reraised(exc) == exc
CredentialFailure(exc) == "LoginFailedException"

\* line 95
AnyUser(logged, username) == TRUE
NoUser(logged, username) == FALSE
SameUser(logged, username) == logged = username

\* line 122: the page after the POST shows a logged user
Always(after) == TRUE
PostSucceeded(after) == after # None

\* The server's handling of the login POST sent on session s for user u:
\* "refused" raises before the server acts, "accepted_error" is a login the
\* server performed whose response raise_for_status rejects.
PostOutcomes == {"accepted", "rejected", "refused", "accepted_error"}
SessionAfterPost(s, u, post) ==
    IF post \in {"accepted", "accepted_error"} THEN [s EXCEPT !.user = u] ELSE s

\* lines 68-129.  cred is what _load_credentials gives (a user name or the
\* exception it raises), get and post are what the two requests meet.  The
\* result is the controller state after the call with the call's record.
login_call(username, password, cred, get, post) ==
    LET c0 == [li |-> logged_in, sess |-> session, events |-> <<>>]
        call == [NoCall EXCEPT !.op = "login", !.pre_li = logged_in, !.pre_sess = session]
        load == NeedsCredentialsFile(username, password)
        u == IF load THEN cred ELSE username
        get_ev == Event("GET", "login_page", session.id, FALSE, logged_in, 0)
        logged == LoggedUser(session.user)
        c1 == [c0 EXCEPT !.events = <<get_ev>>]
        c2 == IF logged # None THEN logout_state(c1) ELSE c1
        post_ev == Event("POST", "login_page", c2.sess.id, FALSE, c2.li, 0)
        c3 == [c2 EXCEPT !.events = Append(c2.events, post_ev),
                         !.sess = SessionAfterPost(c2.sess, u, post)]
        after == LoggedUser(c3.sess.user)
    IN  IF load /\ cred \in CredentialErrors
        THEN [c |-> c0, call |-> [call EXCEPT !.result = CredentialFailure(cred),
                                              !.returned = cred]]
        ELSE IF LoginCheckFails(FALSE, logged_in)
        THEN [c |-> c0, call |-> [call EXCEPT !.user = u, !.result = "NotLoggedInException"]]
        ELSE IF get = "fail"
        THEN [c |-> c1, call |-> [call EXCEPT !.user = u, !.result = "Error"]]
        ELSE IF logged # None /\ SameUser(logged, u)
        THEN [c |-> [c1 EXCEPT !.li = TRUE],
              call |-> [call EXCEPT !.user = u, !.shown = logged]]
        ELSE IF post \in {"refused", "accepted_error"}
        THEN [c |-> c3, call |-> [call EXCEPT !.user = u, !.shown = logged,
                                              !.result = "Error"]]
        ELSE IF PostSucceeded(after)
        THEN [c |-> [c3 EXCEPT !.li = TRUE],
              call |-> [call EXCEPT !.user = u, !.shown = logged, !.after = after]]
        ELSE [c |-> logout_state(c3),
              call |-> [call EXCEPT !.user = u, !.shown = logged, !.after = after,
                                    !.result = "LoginFailedException"]]

\* Inputs the call never looks at are fixed, so each run of login is chosen
\* once: cred when both arguments are given, the password when the user name
\* is missing, and the requests a failed call does not reach.
login ==
    /\ Idle
    /\ \E username \in Users \cup {None}, password \in {"secret", None} :
         \E cred \in Users \cup CredentialErrors :
           /\ (username # None /\ password # None) => cred = username
           /\ (username = None) => password = None
           /\ (username # None /\ password = None) =>
                 (cred \in CredentialErrors \/ cred = username)
           /\ \E get \in {"ok", "fail"}, post \in PostOutcomes :
                /\ (cred \in CredentialErrors) => get = "ok"
                /\ (\/ cred \in CredentialErrors
                    \/ get = "fail"
                    \/ session.user = cred) => post = "accepted"
                /\ LET r == login_call(username, password, cred, get, post)
                   IN  /\ r.c.sess.id <= MaxSess
                       /\ logged_in' = r.c.li
                       /\ session' = r.c.sess
                       /\ last' = [r.call EXCEPT
                                     !.events = r.c.events,
                                     !.store = IF (username = None \/ password = None)
                                                  /\ cred \in CredentialErrors
                                               THEN cred ELSE "unused"]
    /\ UNCHANGED <<gen, quick>>

\* ---------------------------------------------------------------- search
\* A page as search sees it: absent (res.find(id="geocaches") found nothing)
\* or a document with rows.  The AJAX endpoint always gives a document.
Absent == [present |-> FALSE, rows |-> 0]
Doc(n) == [present |-> TRUE, rows |-> n]
FirstPages == {Absent} \cup {Doc(n) : n \in 0..MaxRows}
MorePages  == {Doc(n) : n \in 0..MaxRows}

\* line 245: which endpoint _search_get_page uses
Endpoint(start_index) == IF start_index = 0 THEN "search" ELSE "search_more"

\* line 195: "not page".  A bs4 document or tag is true whatever it holds, so
\* only the absent page (None) is empty.
NoRows(page) == ~page.present \/ page.rows = 0
PageIsEmpty(page) == ~page.present

\* line 202
Decrement(limit) == IF limit.inf THEN limit ELSE [limit EXCEPT !.n = limit.n - 1]

\* line 203
LimitReached(limit) == ~limit.inf /\ limit.n <= 0
LimitExhausted(limit) == ~limit.inf /\ limit.n < 0

\* line 200: the for loop has used up the rows of the page
PageDoneEarly(pos, rows) == pos + 1 >= rows
PageDone(pos, rows) == pos >= rows

\* line 233
Stay(start_index) == start_index
NextStartIndex(start_index) == start_index + 1

\* lines 206-231: the attributes search fills in on the Cache it yields
BasicAttributes == {"wp", "type", "name", "found", "favorites", "state", "pm_only"}
DetailAttributes == {"size", "difficulty", "terrain", "hidden", "author"}
AllFilled(pm_only) == BasicAttributes \cup DetailAttributes
Filled(pm_only) ==
    IF pm_only THEN BasicAttributes ELSE BasicAttributes \cup DetailAttributes

\* lines 197 and 204: raise StopIteration() inside the generator body.  It
\* ends the generator; an interpreter with PEP 479 in force (pep479) turns it
\* into RuntimeError instead.
stop_iteration(g, pep479) ==
    IF pep479 THEN [g EXCEPT !.status = "raised", !.exc = "RuntimeError"]
    ELSE [g EXCEPT !.status = "done", !.exc = "StopIteration"]

\* lines 65-66 seen from the generator: the Error raised by _request leaves
\* search through _search_get_page and line 193, which catch nothing
request_swallowed(g) == [g EXCEPT !.status = "done", !.exc = "StopIteration"]
request_error(g) == [g EXCEPT !.status = "raised", !.exc = "Error"]

\* line 178: calling search() only creates the generator
search ==
    /\ Idle
    /\ \E limit \in Limits :
         gen' = [NoGen EXCEPT !.status = "created", !.limit0 = limit, !.limit = limit]
    /\ last' = [NoCall EXCEPT !.op = "search", !.pre_li = logged_in, !.pre_sess = session]
    /\ UNCHANGED <<logged_in, session, quick>>

\* next(generator): the body starts at line 190 or resumes after a yield
search_next ==
    /\ gen.status \in {"created", "suspended"}
    /\ gen' = [gen EXCEPT !.status = IF gen.status = "created" THEN "fetch" ELSE "row"]
    /\ last' = [NoCall EXCEPT !.op = "next", !.pre_li = logged_in, !.pre_sess = session,
                              !.first = (gen.status = "created"), !.result = "running"]
    /\ UNCHANGED <<logged_in, session, quick>>

\* lines 193-197 with _search_get_page (235-266) and _request (37-66)
search_get_page ==
    /\ gen.status = "fetch"
    /\ IF LoginCheckFails(TRUE, logged_in)
       THEN /\ gen' = [gen EXCEPT !.status = "raised", !.exc = "NotLoggedInException"]
            /\ last' = [last EXCEPT !.result = "NotLoggedInException"]
       ELSE /\ Len(gen.fetches) < MaxFetch
            /\ \E get \in {"ok", "fail"}, pep479 \in BOOLEAN :
                 \E page \in (IF gen.start_index = 0 THEN FirstPages ELSE MorePages) :
                   LET ev == Event("GET", Endpoint(gen.start_index), session.id,
                                   TRUE, logged_in, gen.start_index)
                       g1 == [gen EXCEPT !.fetches =
                                Append(@, [start |-> gen.start_index,
                                           url |-> Endpoint(gen.start_index),
                                           failed |-> get = "fail",
                                           page |-> IF get = "fail" THEN Absent ELSE page])]
                   IN  /\ (get = "fail") => page = Doc(0)
                       /\ (get = "fail" \/ ~PageIsEmpty(page)) => ~pep479
                       /\ last' = [last EXCEPT
                                     !.events = Append(@, ev),
                                     !.result = IF get = "fail" THEN request_error(gen).exc
                                                ELSE IF PageIsEmpty(page)
                                                THEN stop_iteration(gen, pep479).exc
                                                ELSE @]
                       /\ gen' = IF get = "fail"
                                 THEN request_error(g1)
                                 ELSE IF PageIsEmpty(page)
                                 THEN stop_iteration(g1, pep479)
                                 ELSE [g1 EXCEPT !.status = "row",
                                                 !.page_rows = page.rows, !.pos = 0,
                                                 !.enum_next = gen.start_index]
    /\ UNCHANGED <<logged_in, session, quick>>

\* lines 200-233: one step of the for loop, up to the next yield, the end of
\* the generator or the end of the page
search_row ==
    /\ gen.status = "row"
    /\ IF PageDone(gen.pos, gen.page_rows)
       THEN /\ gen' = [gen EXCEPT !.status = "fetch",
                                  !.start_index = NextStartIndex(gen.start_index)]
            /\ UNCHANGED last
       ELSE LET g1 == [gen EXCEPT !.start_index = gen.enum_next,
                                  !.enum_next = gen.enum_next + 1,
                                  !.pos = gen.pos + 1,
                                  !.limit = Decrement(gen.limit)]
            IN  IF LimitExhausted(g1.limit)
                THEN \E pep479 \in BOOLEAN :
                       /\ gen' = stop_iteration(g1, pep479)
                       /\ last' = [last EXCEPT !.result = stop_iteration(g1, pep479).exc]
                ELSE \E pm_only \in BOOLEAN :
                       /\ gen' = [g1 EXCEPT !.status = "suspended",
                                            !.yielded = Append(@, [page |-> Len(gen.fetches),
                                                                   pos |-> gen.pos])]
                       /\ last' = [last EXCEPT !.result = "yield",
                                               !.pm_only = pm_only,
                                               !.cache = Filled(pm_only)]
    /\ UNCHANGED <<logged_in, session, quick>>

Next ==
    \/ login
    \/ logout
    \/ get_logged_user
    \/ search
    \/ search_next
    \/ search_get_page
    \/ search_row

Spec == Init /\ [][Next]_vars

\* ---------------------------------------------------------------- search_quick
\* What the tile collaborator gives: a block holds one cache, which lies in
\* the searched area or not.  The same block may be in more than one tile.
Blocks == {[wp |-> "GC1", inside |-> TRUE], [wp |-> "GC2", inside |-> FALSE]}
SeqsUpTo(S, n) == UNION {[1..k -> S] : k \in 0..n}
TileSets == SeqsUpTo(SeqsUpTo(Blocks, MaxBlocks), MaxTiles)

\* line 285: Cache.from_block(block)
from_block(b) == [wp |-> b.wp, in_area |-> b.inside]

\* line 286: strict and cache.location not in area
NeverSkipped(strict, cache) == FALSE
Skipped(strict, cache) == strict /\ ~cache.in_area

\* lines 283-291 from block b of tile t on: the place of the next yield, or
\* the end of the tiles
RECURSIVE Scan(_, _, _, _)
Scan(tiles, strict, t, b) ==
    IF t > Len(tiles) THEN [end |-> TRUE, tile |-> t, block |-> b]
    ELSE IF b > Len(tiles[t]) THEN Scan(tiles, strict, t + 1, 1)
    ELSE IF Skipped(strict, from_block(tiles[t][b])) THEN Scan(tiles, strict, t, b + 1)
    ELSE [end |-> FALSE, tile |-> t, block |-> b]

\* line 268: calling search_quick() only creates the generator
search_quick ==
    /\ Idle
    /\ \E strict \in BOOLEAN :
         quick' = [NoQuick EXCEPT !.status = "created", !.strict = strict]
    /\ UNCHANGED <<logged_in, session, gen, last>>

\* next(generator): the first one gets the tiles (line 281), each one runs
\* the loops up to the next yield or to the end
search_quick_next ==
    /\ Idle
    /\ quick.status \in {"created", "suspended"}
    /\ \E tiles \in (IF quick.status = "created" THEN TileSets ELSE {quick.tiles}) :
         LET r == IF quick.status = "created"
                  THEN Scan(tiles, quick.strict, 1, 1)
                  ELSE Scan(tiles, quick.strict, quick.tile, quick.block + 1)
         IN  quick' = [quick EXCEPT
                         !.tiles = tiles, !.tile = r.tile, !.block = r.block,
                         !.status = IF r.end THEN "done" ELSE "suspended",
                         !.yielded = IF r.end THEN @
                                     ELSE Append(@, from_block(tiles[r.tile][r.block]))]
    /\ UNCHANGED <<logged_in, session, gen, last>>

NextQuick ==
    \/ search_quick
    \/ search_quick_next

SpecQuick == Init /\ [][NextQuick]_vars

\* ---------------------------------------------------------------- helpers of the claims
\* the generator is not in the middle of a pull
Returned == gen.status \notin {"fetch", "row"}

\* the generator has ended, normally or by an exception
Ended == gen.status \in {"done", "raised"}

LoginPageGet(e) == e.ev = "GET" /\ e.url = "login_page"
LoginPost(e) == e.ev = "POST" /\ e.url = "login_page"

\* ---------------------------------------------------------------- C1
\* C1: no auth-gated HTTP request is issued while the controller is logged
\* out, and a search whose first pull happens while logged out raises
\* NotLoggedInException without any HTTP request.
C1_NoGatedRequestWhileLoggedOut ==
    /\ \A i \in DOMAIN last.events :
          (IsHttp(last.events[i]) /\ last.events[i].gated) => last.events[i].li
    /\ (last.op = "next" /\ last.first /\ ~last.pre_li /\ Returned) =>
          /\ gen.status = "raised"
          /\ gen.exc = "NotLoggedInException"
          /\ last.result = "NotLoggedInException"
          /\ HttpEvents(last.events) = <<>>
          /\ gen.fetches = <<>>

C1_Witness ==
    /\ last.op = "next" /\ last.first /\ ~last.pre_li
    /\ gen.status = "raised" /\ gen.exc = "NotLoggedInException"

\* ---------------------------------------------------------------- C2
\* C2: a login whose login page already shows the requested user issues no
\* request after the login-page fetch (no POST) and does not log out; it
\* ends logged in, on the same session, with the same identity.
C2_SameUserNoPost ==
    (last.op = "login" /\ last.shown \in Users /\ last.shown = last.user) =>
        /\ Len(last.events) = 1
        /\ LoginPageGet(last.events[1])
        /\ last.result = "ok"
        /\ logged_in
        /\ session = last.pre_sess
        /\ session.user = last.user

C2_Witness ==
    /\ last.op = "login" /\ last.shown \in Users /\ last.shown = last.user
    /\ last.pre_li /\ logged_in

\* ---------------------------------------------------------------- C3
\* C3: a login whose login page shows another user logs out exactly once
\* before the POST, and the POST is sent on the session that logout created.
C3_OtherUserLogoutBeforePost ==
    (last.op = "login" /\ last.shown \in Users /\ last.shown # last.user) =>
        /\ Len(last.events) >= 3
        /\ LoginPageGet(last.events[1])
        /\ last.events[1].sess = last.pre_sess.id
        /\ last.events[2].ev = "logout"
        /\ LoginPost(last.events[3])
        /\ ~last.events[3].li
        /\ last.events[3].sess = last.events[2].sess
        /\ last.events[3].sess # last.pre_sess.id
        /\ \A i \in DOMAIN last.events : LoginPost(last.events[i]) => i = 3

C3_Witness ==
    /\ last.op = "login" /\ last.shown \in Users /\ last.shown # last.user
    /\ last.result = "ok" /\ session.user = last.user

\* ---------------------------------------------------------------- C4
\* C4: when the page after the POST shows no user, login raises
\* LoginFailedException and leaves the controller logged out on a session
\* created after the POST; when it shows a user, login returns and the
\* controller is logged in.
C4_PostResultDecides ==
    /\ (last.op = "login" /\ last.after = None) =>
          /\ last.result = "LoginFailedException"
          /\ ~logged_in
          /\ session.user = None
          /\ \A i \in DOMAIN last.events :
                LoginPost(last.events[i]) => session.id > last.events[i].sess
    /\ (last.op = "login" /\ last.after \in Users) =>
          /\ last.result = "ok"
          /\ logged_in
          /\ session.user = last.after

C4_Witness ==
    /\ last.op = "login" /\ last.after = None
    /\ last.pre_li /\ last.shown \in Users

C6_LogoutReplacesSession ==
    (last.op = "logout") =>
        /\ last.result = "ok"
        /\ HttpEvents(last.events) = <<>>
        /\ ~logged_in
        /\ session.id # last.pre_sess.id
        /\ session.user = None
        /\ (~last.pre_li /\ last.pre_sess.user = None) =>
              (logged_in = last.pre_li /\ session.user = last.pre_sess.user)

C6_Witness ==
    last.op = "logout" /\ last.pre_li /\ last.pre_sess.user \in Users

\* ---------------------------------------------------------------- C7
\* C7 as claimed: the controller reports logged-in exactly when its current
\* session carries an authenticated user.
C7_LoggedInIffIdentity ==
    logged_in <=> (session.user # None)

\* ---------------------------------------------------------------- C8
\* C8 as claimed: a search with limit 0 yields nothing and fetches exactly
\* one page, whatever the first page is (absent, without rows, with rows).
C8_LimitZeroOneFetch ==
    (gen.status # "none" /\ gen.limit0 = Fin(0)) =>
        /\ gen.yielded = <<>>
        /\ Len(gen.fetches) <= 1
        /\ (Ended /\ gen.exc # "NotLoggedInException") => Len(gen.fetches) = 1

\* ---------------------------------------------------------------- C9
\* C9: a search with limit N whose first page has more than N rows yields
\* the first N rows of that page in document order, exactly N of them once
\* it has ended, and never fetches a second page.
FirstPageLonger ==
    /\ gen.status # "none"
    /\ ~gen.limit0.inf
    /\ Len(gen.fetches) >= 1
    /\ ~gen.fetches[1].failed
    /\ gen.fetches[1].page.present
    /\ gen.fetches[1].page.rows > gen.limit0.n

C9_LimitCutsFirstPage ==
    FirstPageLonger =>
        /\ Len(gen.fetches) = 1
        /\ gen.status # "fetch"
        /\ Len(gen.yielded) <= gen.limit0.n
        /\ \A i \in DOMAIN gen.yielded : gen.yielded[i] = [page |-> 1, pos |-> i - 1]
        /\ Ended => /\ Len(gen.yielded) = gen.limit0.n
                    /\ gen.exc \in {"StopIteration", "RuntimeError"}

C9_Witness ==
    /\ FirstPageLonger /\ Ended
    /\ gen.limit0 = Fin(1)
    /\ gen.fetches[1].page.rows = 2
    /\ gen.yielded = <<[page |-> 1, pos |-> 0]>>

\* ---------------------------------------------------------------- C10
\* C10 as claimed: with no limit, when the first page is full (MaxRows rows
\* here, 20 on the site) and the continuation page has no rows, search yields
\* exactly the rows of the first page and then ends normally: it asks for no
\* further page and the pull that met the empty page ends the generator
\* without an error.
C10_EmptyPageEndsSearch ==
    (/\ gen.limit0.inf
     /\ Len(gen.fetches) >= 2
     /\ ~gen.fetches[1].failed /\ gen.fetches[1].page.present
     /\ gen.fetches[1].page.rows = MaxRows
     /\ ~gen.fetches[2].failed /\ NoRows(gen.fetches[2].page)) =>
        /\ Len(gen.yielded) = gen.fetches[1].page.rows
        /\ Len(gen.fetches) = 2
        /\ gen.status # "fetch"
        /\ Returned => (gen.status = "done" /\ gen.exc = "StopIteration")

\* ---------------------------------------------------------------- C11
\* C11: for a row with the PM-only marker search yields a Cache with exactly
\* wp, type, name, found, favorites, state and pm_only filled in, none of
\* size, difficulty, terrain, hidden, author, and stays in the for loop at
\* the next row of the same page.
C11_PmOnlyBasicAttributes ==
    (last.op = "next" /\ last.result = "yield" /\ last.pm_only) =>
        /\ last.cache = BasicAttributes
        /\ last.cache \cap DetailAttributes = {}
        /\ gen.status = "suspended"
        /\ gen.yielded[Len(gen.yielded)].page = Len(gen.fetches)
        /\ gen.pos = gen.yielded[Len(gen.yielded)].pos + 1

C11_Witness ==
    /\ last.op = "next" /\ last.result = "yield" /\ last.pm_only
    /\ gen.pos < gen.page_rows

\* ---------------------------------------------------------------- C13
\* C13: a login called without user name or without password whose
\* credentials file cannot be loaded (not found, malformed, fields missing,
\* unreadable) raises LoginFailedException and issues no HTTP request.
C13_CredentialFailureIsLoginFailed ==
    (last.op = "login" /\ last.store \in CredentialErrors) =>
        /\ last.result = "LoginFailedException"
        /\ last.events = <<>>

C13_Witness ==
    /\ last.op = "login" /\ last.store = "IOError"
    /\ last.result = "LoginFailedException"
    /\ last.pre_li

\* ---------------------------------------------------------------- C14
\* C14 as claimed: one pull of the search generator triggers at most one
\* page fetch, whatever pages the server returns.
C14_OneFetchPerPull ==
    (last.op = "next") => Len(HttpEvents(last.events)) <= 1

\* ---------------------------------------------------------------- C15
\* rows of the pages fetched before fetch number i
RECURSIVE RowsBefore(_)
RowsBefore(i) ==
    IF i <= 1 THEN 0 ELSE RowsBefore(i - 1) + gen.fetches[i - 1].page.rows

\* C15 as claimed: the start index of every continuation fetch is the number
\* of rows of all pages fetched before it, for every page shape.
C15_StartIndexCountsRows ==
    \A i \in DOMAIN gen.fetches :
        i >= 2 => gen.fetches[i].start = RowsBefore(i)

\* ---------------------------------------------------------------- C16
\* C16: within one search the start indexes of the fetches never decrease
\* and none is used twice; the first fetch has start index 0 and is the only
\* one on the search endpoint, every later one is on the AJAX endpoint with a
\* start index above 0.
C16_StartIndexesIncrease ==
    \A i \in DOMAIN gen.fetches :
        /\ (i = 1) => (gen.fetches[i].start = 0 /\ gen.fetches[i].url = "search")
        /\ (i >= 2) => /\ gen.fetches[i].start > gen.fetches[i - 1].start
                       /\ gen.fetches[i].start > 0
                       /\ gen.fetches[i].url = "search_more"
        /\ \A j \in DOMAIN gen.fetches : j # i => gen.fetches[j].start # gen.fetches[i].start

C16_Witness ==
    /\ Len(gen.fetches) = 2
    /\ gen.fetches[1].page.rows = 2
    /\ gen.fetches[2].start = 2
    /\ gen.fetches[2].url = "search_more"

\* ---------------------------------------------------------------- C17
\* the pull in progress or just finished is the one after the N-th entity of
\* a search with limit N >= 1
AfterLastEntity ==
    /\ last.op = "next"
    /\ last.result # "yield"
    /\ ~gen.limit0.inf
    /\ gen.limit0.n >= 1
    /\ Len(gen.yielded) = gen.limit0.n

\* the entity yielded last was the last row of its page
LastRowOfPage ==
    LET y == gen.yielded[Len(gen.yielded)]
    IN  y.pos + 1 = gen.fetches[y.page].page.rows

\* C17 as claimed: after N entities of a search with limit N >= 1 the pull
\* that ends the sequence issues no page fetch, wherever in its page the
\* N-th entity was.
C17_EndingPullNeverFetches ==
    AfterLastEntity => HttpEvents(last.events) = <<>>

\* C17 amended: after N entities of a search with limit N >= 1, when the
\* N-th entity was not the last row of its page, the next pull issues no
\* page fetch and ends the sequence.
C17_EndingPullMidPageNoFetch ==
    (AfterLastEntity /\ ~LastRowOfPage) =>
        /\ HttpEvents(last.events) = <<>>
        /\ gen.status \in {"row", "done", "raised"}
        /\ (gen.status # "row") =>
              /\ last.result \in {"StopIteration", "RuntimeError"}
              /\ gen.exc = last.result

C17_Witness ==
    /\ AfterLastEntity
    /\ ~LastRowOfPage
    /\ gen.status = "done"
    /\ last.result = "StopIteration"
    /\ Len(gen.fetches) = 1

\* ---------------------------------------------------------------- C18
\* C18 as claimed: a pull made while the controller is logged out, on a
\* search sequence whose first page was fetched while logged in, fails with
\* NotLoggedInException, also when rows of a fetched page are left; checked
\* here in the part that matters most, that such a pull yields no entity.
C18_LoggedOutPullYieldsNothing ==
    (/\ last.op = "next"
     /\ ~last.pre_li
     /\ Len(gen.fetches) >= 1
     /\ ~gen.fetches[1].failed) => last.result # "yield"

\* ---------------------------------------------------------------- C19
\* C19: when a page fetch fails after the search has yielded one or more
\* entities, the pull that made the fetch raises Error to the caller, the
\* generator does not end normally, and no fetch follows the failed one.
C19_FetchFailurePropagates ==
    \A i \in DOMAIN gen.fetches :
        (gen.fetches[i].failed /\ Len(gen.yielded) >= 1) =>
            /\ i = Len(gen.fetches)
            /\ gen.status = "raised"
            /\ gen.exc = "Error"
            /\ (last.op = "next") =>
                  /\ last.result = "Error"
                  /\ Len(HttpEvents(last.events)) >= 1
                  /\ HttpEvents(last.events)[Len(HttpEvents(last.events))].start
                        = gen.fetches[i].start

C19_Witness ==
    /\ Len(gen.fetches) = 2
    /\ gen.fetches[2].failed
    /\ Len(gen.yielded) = 2
    /\ last.op = "next"
    /\ last.result = "Error"

\* ---------------------------------------------------------------- C20
\* C20: get_logged_user leaves the login flag and the session object as they
\* were, logged in or not; called without a page while logged out it sends
\* the login-page request, outside the login check, and does not raise
\* NotLoggedInException; called with a loaded page it sends no request and
\* reads the user from that page.
C20_GetLoggedUserReadsOnly ==
    (last.op = "get_logged_user") =>
        /\ logged_in = last.pre_li
        /\ session = last.pre_sess
        /\ (last.shown = NoPage) =>
              /\ last.result \in {"ok", "Error"}
              /\ Len(last.events) = 1
              /\ LoginPageGet(last.events[1])
              /\ ~last.events[1].gated
              /\ last.events[1].sess = session.id
              /\ (last.result = "ok") => last.returned = session.user
        /\ (last.shown # NoPage) =>
              /\ last.events = <<>>
              /\ last.result = "ok"
              /\ last.returned = last.shown

C20_Witness ==
    /\ last.op = "get_logged_user"
    /\ ~last.pre_li
    /\ ~logged_in
    /\ last.shown = NoPage
    /\ last.result = "ok"
    /\ Len(last.events) = 1

\* ---------------------------------------------------------------- C12
\* all blocks of all tiles, in tile order then block order
RECURSIVE AllBlocks(_)
AllBlocks(tiles) ==
    IF tiles = <<>> THEN <<>> ELSE tiles[1] \o AllBlocks(Tail(tiles))

\* C12: with strict on search_quick never yields a cache outside the area;
\* with strict off it yields one cache per block of every tile, in tile order
\* then block order, a block found twice being yielded twice.
C12_StrictFiltersElseAll ==
    /\ quick.strict => \A i \in DOMAIN quick.yielded : quick.yielded[i].in_area
    /\ (~quick.strict /\ quick.status \in {"suspended", "done"}) =>
          /\ Len(quick.yielded) <= Len(AllBlocks(quick.tiles))
          /\ \A i \in DOMAIN quick.yielded :
                /\ quick.yielded[i].wp = AllBlocks(quick.tiles)[i].wp
                /\ quick.yielded[i].in_area = AllBlocks(quick.tiles)[i].inside
          /\ (quick.status = "done") =>
                Len(quick.yielded) = Len(AllBlocks(quick.tiles))

C12_Witness ==
    /\ quick.strict /\ quick.status = "done"
    /\ Len(quick.tiles) = 2
    /\ \E t \in DOMAIN quick.tiles : \E b \in DOMAIN quick.tiles[t] :
          ~quick.tiles[t][b].inside
    /\ Len(quick.yielded) >= 1
====
